---- MODULE Spec2Model ----
(***************************************************************************)
(* A model of the openme daemon (src/daemon/openmed.py) and its validators *)
(* (src/daemon/validators.py): main's configuration loading, the accept    *)
(* loop of start_listening, handle_client_connection and the rule fan-out  *)
(* of open_ports / close_ports.                                            *)
(*                                                                         *)
(* Text is a sequence of one-character strings, so that strip(),           *)
(* startswith(), slicing and the address regular expression are computed   *)
(* as the code computes them.                                              *)
(***************************************************************************)
EXTENDS Integers, Sequences, FiniteSets, Bags, TLC

VARIABLES pc, config, validated, listening, exitCode, mainLog, acceptLog,
          conn, openConns, nConns, nAcceptFails,
          data, ip_address, direction, idx, table, call

vars == <<pc, config, validated, listening, exitCode, mainLog, acceptLog,
          conn, openConns, nConns, nAcceptFails,
          data, ip_address, direction, idx, table, call>>

(***************************************************************************)
(* Bounds of the model.                                                    *)
(***************************************************************************)
MaxConns == 2
MaxAcceptFails == 2
MaxCommands == 3

(***************************************************************************)
(* Text helpers: Python's str.strip(), str.startswith() and slicing.       *)
(***************************************************************************)
Whitespace == {" ", "\n", "\t", "\r"}

Digits == {"0", "1", "2", "3", "4", "5", "6", "7", "8", "9"}

Letters == {"a", "b", "c", "d", "e", "f", "g", "h", "i", "j", "k", "l", "m",
            "n", "o", "p", "q", "r", "s", "t", "u", "v", "w", "x", "y", "z",
            "A", "B", "C", "D", "E", "F", "G", "H", "I", "J", "K", "L", "M",
            "N", "O", "P", "Q", "R", "S", "T", "U", "V", "W", "X", "Y", "Z"}

\* A byte that is not valid UTF-8: bytes.decode() raises on it.
BadByte == "<ff>"

RECURSIVE LStrip(_)
LStrip(s) == IF s # <<>> /\ Head(s) \in Whitespace THEN LStrip(Tail(s)) ELSE s

RECURSIVE RStrip(_)
RStrip(s) ==
    IF s # <<>> /\ s[Len(s)] \in Whitespace
    THEN RStrip(SubSeq(s, 1, Len(s) - 1))
    ELSE s

Strip(s) == RStrip(LStrip(s))

StartsWith(s, prefix) ==
    /\ Len(s) >= Len(prefix)
    /\ SubSeq(s, 1, Len(prefix)) = prefix

\* s[n:] of Python
SliceFrom(s, n) == SubSeq(s, n + 1, Len(s))

Decodable(raw) == \A i \in 1..Len(raw) : raw[i] # BadByte

(***************************************************************************)
(* is_valid_ip4_address: re.match of                                       *)
(*     ^((25[0-5]|(2[0-4]|1\d|[1-9]|)\d)\.?\b){4}$                         *)
(***************************************************************************)
\* A decimal digit outside ASCII (ARABIC-INDIC DIGIT THREE): in a str pattern
\* \d and \w match it, [0-9] does not.
ArabicIndicThree == "<u+0663>"

\* \d
DecimalDigits == Digits \cup {ArabicIndicThree}

IsWordChar(c) == c \in DecimalDigits \cup Letters \cup {"_"}

\* \b at the position after the first i characters of s
WordBoundary(s, i) ==
    LET before == i >= 1 /\ i <= Len(s) /\ IsWordChar(s[i])
        after  == i + 1 <= Len(s) /\ IsWordChar(s[i + 1])
    IN  before # after

\* 25[0-5]|(2[0-4]|1\d|[1-9]|)\d  matching exactly s[i+1..i+l]
OctetAt(s, i, l) ==
    /\ i + l <= Len(s)
    /\ \/ /\ l = 3
          /\ \/ s[i + 1] = "2" /\ s[i + 2] = "5"
                /\ s[i + 3] \in {"0", "1", "2", "3", "4", "5"}
             \/ s[i + 1] = "2" /\ s[i + 2] \in {"0", "1", "2", "3", "4"}
                /\ s[i + 3] \in DecimalDigits
             \/ s[i + 1] = "1" /\ s[i + 2] \in DecimalDigits
                /\ s[i + 3] \in DecimalDigits
       \/ /\ l = 2
          /\ s[i + 1] \in Digits \ {"0"}
          /\ s[i + 2] \in DecimalDigits
       \/ /\ l = 1
          /\ s[i + 1] \in DecimalDigits

\* n repetitions of the group starting after i characters, then $
\* ($ also matches just before a final newline)
RECURSIVE MatchGroups(_, _, _)
MatchGroups(s, i, n) ==
    IF n = 0
    THEN \/ i = Len(s)
         \/ i = Len(s) - 1 /\ s[Len(s)] = "\n"
    ELSE \E l \in 1..3 :
            /\ OctetAt(s, i, l)
            /\ \/ /\ i + l + 1 <= Len(s)
                  /\ s[i + l + 1] = "."
                  /\ WordBoundary(s, i + l + 1)
                  /\ MatchGroups(s, i + l + 1, n - 1)
               \/ /\ WordBoundary(s, i + l)
                  /\ MatchGroups(s, i + l, n - 1)

is_valid_ip4_address(s) == MatchGroups(s, 0, 4)

is_valid_port_number_NoUpperBound(port_number) == 0 < port_number

is_valid_port_number(port_number) == 0 < port_number /\ port_number <= 65535

UpperAlphabet == <<"A", "B", "C", "D", "E", "F", "G", "H", "I", "J", "K", "L", "M",
                   "N", "O", "P", "Q", "R", "S", "T", "U", "V", "W", "X", "Y", "Z">>

LowerAlphabet == <<"a", "b", "c", "d", "e", "f", "g", "h", "i", "j", "k", "l", "m",
                   "n", "o", "p", "q", "r", "s", "t", "u", "v", "w", "x", "y", "z">>

LowerChar(c) ==
    IF \E i \in 1..26 : UpperAlphabet[i] = c
    THEN LowerAlphabet[CHOOSE i \in 1..26 : UpperAlphabet[i] = c]
    ELSE c

\* str.lower()
Lower(s) == [i \in 1..Len(s) |-> LowerChar(s[i])]

tcp == <<"t", "c", "p">>
udp == <<"u", "d", "p">>

is_valid_protocol_CaseSensitive(protocol) == protocol \in {tcp, udp}

is_valid_protocol(protocol) == Lower(protocol) \in {tcp, udp}

(***************************************************************************)
(* validate_ports: the first failing check of the first failing entry.     *)
(***************************************************************************)
RECURSIVE ValidatePortsFrom(_, _)
ValidatePortsFrom(ports_list, i) ==
    IF i > Len(ports_list) THEN "ok"
    ELSE IF ~is_valid_port_number(ports_list[i].port) THEN "InvalidPortNumber"
    ELSE IF ~is_valid_protocol(ports_list[i].protocol) THEN "InvalidProtocol"
    ELSE ValidatePortsFrom(ports_list, i + 1)

validate_ports(ports_list) == ValidatePortsFrom(ports_list, 1)

(***************************************************************************)
(* The files the configuration can name, and what a PEM parser makes of    *)
(* them.                                                                   *)
(***************************************************************************)
FileState(path) ==
    CASE path = "../certs/server.crt" -> "certificate"
      [] path = "../certs/server.key" -> "private_key"
      [] path = "../certs/ca.crt"     -> "certificate"
      [] path = "/etc/hostname"       -> "not_pem"
      [] OTHER                        -> "missing"

validate_cert_file(cert_file) ==
    IF FileState(cert_file) = "certificate" THEN "ok" ELSE "InvalidCertificateError"

validate_key_file(key_file) ==
    IF FileState(key_file) = "private_key" THEN "ok" ELSE "InvalidKeyError"

(***************************************************************************)
(* validate_config: "ok", or the error of the first failing check.         *)
(***************************************************************************)
validate_config_FilesFirst(c) ==
    IF validate_cert_file(c.CERT_FILE) # "ok" THEN "InvalidCertificateError: CERT_FILE"
    ELSE IF validate_key_file(c.KEY_FILE) # "ok" THEN "InvalidKeyError: KEY_FILE"
    ELSE IF validate_cert_file(c.CA_CERT_FILE) # "ok" THEN "InvalidCertificateError: CA_CERT_FILE"
    ELSE IF ~is_valid_ip4_address(c.BIND_ADDRESS) THEN "RuntimeError: BIND_ADDRESS"
    ELSE IF ~is_valid_port_number(c.LISTENING_PORT) THEN "RuntimeError: LISTENING_PORT"
    ELSE IF validate_ports(c.PORTS) # "ok" THEN validate_ports(c.PORTS)
    ELSE "ok"

validate_config(c) ==
    IF ~is_valid_ip4_address(c.BIND_ADDRESS) THEN "RuntimeError: BIND_ADDRESS"
    ELSE IF ~is_valid_port_number(c.LISTENING_PORT) THEN "RuntimeError: LISTENING_PORT"
    ELSE IF validate_ports(c.PORTS) # "ok" THEN validate_ports(c.PORTS)
    ELSE IF validate_cert_file(c.CERT_FILE) # "ok" THEN "InvalidCertificateError: CERT_FILE"
    ELSE IF validate_key_file(c.KEY_FILE) # "ok" THEN "InvalidKeyError: KEY_FILE"
    ELSE IF validate_cert_file(c.CA_CERT_FILE) # "ok" THEN "InvalidCertificateError: CA_CERT_FILE"
    ELSE "ok"

\* The checks validate_config makes, in the order it makes them, up to and
\* including the one that raises.
Check(field, entry, what) == [field |-> field, entry |-> entry, what |-> what]

RECURSIVE PortsTraceFrom(_, _)
PortsTraceFrom(ports_list, i) ==
    IF i > Len(ports_list) THEN <<>>
    ELSE IF ~is_valid_port_number(ports_list[i].port)
    THEN <<Check("PORTS", i, "port")>>
    ELSE IF ~is_valid_protocol(ports_list[i].protocol)
    THEN <<Check("PORTS", i, "port"), Check("PORTS", i, "protocol")>>
    ELSE <<Check("PORTS", i, "port"), Check("PORTS", i, "protocol")>>
         \o PortsTraceFrom(ports_list, i + 1)

validate_config_trace(c) ==
    LET bind  == <<Check("BIND_ADDRESS", 0, "address")>>
        port  == bind \o <<Check("LISTENING_PORT", 0, "port")>>
        ports == port \o PortsTraceFrom(c.PORTS, 1)
        cert  == ports \o <<Check("CERT_FILE", 0, "certificate")>>
        key   == cert \o <<Check("KEY_FILE", 0, "key")>>
        ca    == key \o <<Check("CA_CERT_FILE", 0, "certificate")>>
    IN  IF ~is_valid_ip4_address(c.BIND_ADDRESS) THEN bind
        ELSE IF ~is_valid_port_number(c.LISTENING_PORT) THEN port
        ELSE IF validate_ports(c.PORTS) # "ok" THEN ports
        ELSE IF validate_cert_file(c.CERT_FILE) # "ok" THEN cert
        ELSE IF validate_key_file(c.KEY_FILE) # "ok" THEN key
        ELSE ca

(***************************************************************************)
(* The built-in defaults, and merge_configs: dict.update of the overrides. *)
(***************************************************************************)
default_config ==
    [BIND_ADDRESS   |-> <<"0", ".", "0", ".", "0", ".", "0">>,
     LISTENING_PORT |-> 54154,
     PORTS          |-> <<[port |-> 80, protocol |-> tcp],
                          [port |-> 443, protocol |-> tcp]>>,
     CERT_FILE      |-> "../certs/server.crt",
     KEY_FILE       |-> "../certs/server.key",
     CA_CERT_FILE   |-> "../certs/ca.crt",
     DEBUG          |-> TRUE]

merge_configs(defaults, config_overwrites) ==
    [k \in DOMAIN defaults \cup DOMAIN config_overwrites |->
        IF k \in DOMAIN config_overwrites THEN config_overwrites[k] ELSE defaults[k]]

(***************************************************************************)
(* The override maps a config file can hold.                               *)
(***************************************************************************)
PortsOptions ==
    { <<[port |-> 80, protocol |-> tcp], [port |-> 443, protocol |-> tcp]>>,
      <<[port |-> 80, protocol |-> tcp], [port |-> 53, protocol |-> udp],
        [port |-> 22, protocol |-> tcp]>>,
      <<[port |-> 80, protocol |-> tcp], [port |-> 443, protocol |-> <<"T", "C", "P">>],
        [port |-> 22, protocol |-> udp]>>,
      <<[port |-> 80, protocol |-> tcp], [port |-> 0, protocol |-> <<"i", "c", "m", "p">>]>>,
      <<[port |-> 65536, protocol |-> tcp]>>,
      <<[port |-> 65535, protocol |-> <<"i", "c", "m", "p">>]>> }

UserConfigs ==
    { [PORTS |-> p, DEBUG |-> d] : p \in PortsOptions, d \in BOOLEAN }
    \cup { [LISTENING_PORT |-> 70000],
           [LISTENING_PORT |-> 8443, DEBUG |-> FALSE],
           [CERT_FILE |-> "/nonexistent.crt"],
           [KEY_FILE |-> "/etc/hostname"],
           [CA_CERT_FILE |-> "../certs/server.key"],
           [BIND_ADDRESS |-> <<"1", "0", ".", "0", ".", "0", ".", "2", "5", "6">>],
           [LISTENING_PORT |-> 0, CERT_FILE |-> "/nonexistent.crt"] }

(***************************************************************************)
(* generate_iptables_command.  The result is the exception raised, if any, *)
(* and the words of the returned text after command.split(): the program   *)
(* (first word), the operation (second word) and, for an iptables rule,    *)
(* its chain, protocol, destination port, source address and target.       *)
(***************************************************************************)
NoCommand ==
    [prog |-> "", op |-> "", chain |-> "", proto |-> <<>>, dport |-> 0,
     src |-> <<>>, jump |-> ""]

generate_iptables_command(ip, port, protocol, action) ==
    IF ~is_valid_ip4_address(ip)
    THEN [exc |-> "ValueError", command |-> NoCommand]
    ELSE IF ~is_valid_port_number(port)
    THEN [exc |-> "InvalidPortNumber", command |-> NoCommand]
    ELSE IF protocol \notin {tcp, udp}
    THEN \* "Invalid protocol. Supported protocols are tcp and udp."
         [exc |-> "none",
          command |-> [NoCommand EXCEPT !.prog = "Invalid", !.op = "protocol."]]
    ELSE IF action \notin {"add", "remove"}
    THEN \* "Invalid action. Supported actions are add and remove."
         [exc |-> "none",
          command |-> [NoCommand EXCEPT !.prog = "Invalid", !.op = "action."]]
    ELSE [exc |-> "none",
          command |-> [prog  |-> "iptables",
                       op    |-> IF action = "add" THEN "-A" ELSE "-D",
                       chain |-> "openme",
                       proto |-> protocol,
                       dport |-> port,
                       src   |-> ip,
                       jump  |-> "ACCEPT"]]

(***************************************************************************)
(* What clients send, and where they connect from.                         *)
(***************************************************************************)
OPEN_ME     == <<"O", "P", "E", "N", " ", "M", "E">>
OPEN_       == <<"O", "P", "E", "N", " ">>
MEOPEN      == <<"M", "E", "O", "P", "E", "N">>
MEOPEN_     == <<"M", "E", "O", "P", "E", "N", " ">>
Addr10_0_0_5 == <<"1", "0", ".", "0", ".", "0", ".", "5">>

Peers == { <<"1", "9", "2", ".", "1", "6", "8", ".", "1", ".", "7">> }

Payloads ==
    { OPEN_ME,
      OPEN_ME \o <<"\n">>,
      OPEN_ME \o <<BadByte>>,
      OPEN_ME \o <<" ", "n", "o", "w">>,
      OPEN_ \o Addr10_0_0_5,
      <<" ">> \o OPEN_ \o <<" ">> \o Addr10_0_0_5 \o <<"\r", "\n">>,
      OPEN_ \o <<"n", "o", "t", "-", "a", "n", "-", "i", "p">>,
      OPEN_ \o <<"2", "5", "6", ".", "1", ".", "1", ".", "1">>,
      OPEN_ \o <<"1", "0", ".", "0", ".", "0", ".", "0", "5">>,
      <<"O", "P", "E", "N">>,
      MEOPEN,
      MEOPEN_ \o Addr10_0_0_5,
      MEOPEN_ \o <<"1", "0", ".", "0", ".", "0">>,
      <<"M", "I", "O", "P", "E", "N", " ">> \o Addr10_0_0_5,
      <<"P", "I", "N", "G">>,
      <<"o", "p", "e", "n", " ", "m", "e">>,
      <<>> }

(***************************************************************************)
(* State.                                                                  *)
(*   pc          where the process is: "main", "start_listening",          *)
(*               "run_as_daemon", "accept", "recv", "ports", "send_ok",    *)
(*               "send_ko", "except" (the handler raised), "exit"          *)
(*   config      the global config of openmed.py                           *)
(*   validated   validate_config has returned normally for config          *)
(*   listening   the server socket is bound                                *)
(*   exitCode    the status the process ended with, -1 while it runs       *)
(*   mainLog     what main has logged                                      *)
(*   acceptLog   what the accept loop logged for the last failed accept    *)
(*   conn        the connection accepted last: what it sent, what was      *)
(*               written to it, the rule requests made for it, the         *)
(*               exception that ended its handler, what was logged for it  *)
(*               and how many accepts had failed and how many handlers had *)
(*               raised before it                                          *)
(*               raised before it, and the firewall table when it was      *)
(*               accepted                                                  *)
(*   openConns   the accepted connections not yet closed                   *)
(*   data, ip_address, direction, idx                                      *)
(*               locals of handle_client_connection / open_ports /         *)
(*               close_ports                                               *)
(*   table       the rules of the firewall's openme chain, a bag           *)
(*   call        the last call of a function applied on its own: its name, *)
(*               its argument and its result                               *)
(***************************************************************************)
\* call: a function applied on its own: its name, its argument, whether it
\* has returned and what it returned
NoCall == [fn |-> "none", arg |-> <<>>, done |-> FALSE, result |-> <<>>]

NoConn ==
    [id |-> 0, peer |-> <<>>, raw |-> <<>>, written |-> <<>>,
     requests |-> <<>>, fault |-> "none", log |-> <<>>, failsBefore |-> 0,
     faultsBefore |-> 0, tableBefore |-> EmptyBag]

Init ==
    /\ pc = "main"
    /\ config = default_config
    /\ validated = FALSE
    /\ listening = FALSE
    /\ exitCode = -1
    /\ mainLog = <<>>
    /\ acceptLog = "none"
    /\ conn = NoConn
    /\ openConns = {}
    /\ nConns = 0
    /\ nAcceptFails = 0
    /\ data = <<>>
    /\ ip_address = <<>>
    /\ direction = "none"
    /\ idx = 0
    /\ table = EmptyBag
    /\ call = NoCall

ConnVars ==
    <<acceptLog, conn, openConns, nConns, nAcceptFails, data, ip_address,
      direction, idx, table, call>>

(***************************************************************************)
(* main                                                                    *)
(***************************************************************************)
AfterConfig(daemonFlag) == IF daemonFlag THEN "run_as_daemon" ELSE "start_listening"

\* The config file does not exist: the error is logged, open() raises
\* FileNotFoundError, "except Exception" logs and calls exit(1).
MainConfigFileMissing ==
    /\ pc = "main"
    /\ mainLog' = <<"Config file not found. Using default config", "Config Error">>
    /\ pc' = "exit"
    /\ exitCode' = 1
    /\ UNCHANGED <<config, validated, listening, ConnVars>>

\* yaml.safe_load raises yaml.YAMLError: logged, and main goes on with the
\* global config as it was.
MainYamlError ==
    /\ pc = "main"
    /\ mainLog' = <<"Error in config">>
    /\ \E daemonFlag \in BOOLEAN : pc' = AfterConfig(daemonFlag)
    /\ UNCHANGED <<config, validated, listening, exitCode, ConnVars>>

\* The file holds something that is not a mapping (empty file, a list):
\* dict.update raises, "except Exception" logs and calls exit(1).
MainConfigNotAMapping ==
    /\ pc = "main"
    /\ mainLog' = <<"Config Error">>
    /\ pc' = "exit"
    /\ exitCode' = 1
    /\ UNCHANGED <<config, validated, listening, ConnVars>>

\* The file holds the mapping user_config: merge, then validate.
MainLoadConfig ==
    /\ pc = "main"
    /\ \E user_config \in UserConfigs, daemonFlag \in BOOLEAN :
          /\ config' = merge_configs(default_config, user_config)
          /\ IF validate_config(config') = "ok"
             THEN /\ validated' = TRUE
                  /\ pc' = AfterConfig(daemonFlag)
                  /\ UNCHANGED <<exitCode, mainLog>>
             ELSE /\ validated' = FALSE
                  /\ mainLog' = <<"Config Error">>
                  /\ pc' = "exit"
                  /\ exitCode' = 1
    /\ UNCHANGED <<listening, ConnVars>>

\* run_as_daemon only enters and leaves a DaemonContext; main returns.
RunAsDaemon ==
    /\ pc = "run_as_daemon"
    /\ pc' = "exit"
    /\ exitCode' = 0
    /\ UNCHANGED <<config, validated, listening, mainLog, ConnVars>>

(***************************************************************************)
(* start_listening: bind, TLS context, listen.                             *)
(***************************************************************************)
\* bind succeeds and the certificate material loads
StartListening ==
    /\ pc = "start_listening"
    /\ FileState(config.CERT_FILE) = "certificate"
    /\ FileState(config.KEY_FILE) = "private_key"
    /\ FileState(config.CA_CERT_FILE) = "certificate"
    /\ listening' = TRUE
    /\ pc' = "accept"
    /\ UNCHANGED <<config, validated, exitCode, mainLog, ConnVars>>

\* bind raises (address in use, no permission): the exception leaves main
StartListeningBindFails ==
    /\ pc = "start_listening"
    /\ pc' = "exit"
    /\ exitCode' = 1
    /\ UNCHANGED <<config, validated, listening, mainLog, ConnVars>>

(***************************************************************************)
(* The accept loop of start_listening.                                     *)
(***************************************************************************)
MainVars == <<config, validated, listening, exitCode, mainLog, call>>

HandlerLocals == <<data, ip_address, direction, idx>>

\* accept() returns a connection whose TLS handshake succeeded; it is one of
\* at most bound connections and carries one of payloads
AcceptFrom(payloads, bound) ==
    /\ pc = "accept"
    /\ nConns < bound
    /\ \E peer \in Peers, raw \in payloads :
          conn' = [id |-> nConns + 1, peer |-> peer, raw |-> raw,
                   written |-> <<>>, requests |-> <<>>, fault |-> "none",
                   log |-> <<>>, failsBefore |-> nAcceptFails,
                   faultsBefore |-> conn.faultsBefore
                                    + IF conn.fault # "none" THEN 1 ELSE 0,
                   tableBefore |-> table]
    /\ nConns' = nConns + 1
    /\ openConns' = openConns \cup {nConns + 1}
    /\ pc' = "recv"
    /\ UNCHANGED <<MainVars, acceptLog, nAcceptFails, HandlerLocals, table>>

Accept == AcceptFrom(Payloads, MaxConns)

\* accept() raises ssl.SSLError: warning, continue
AcceptSSLError_Propagates ==
    /\ pc = "accept"
    /\ nAcceptFails < MaxAcceptFails
    /\ nAcceptFails' = nAcceptFails + 1
    /\ acceptLog' = "warning: TLS handshake failed"
    /\ pc' = "exit"
    /\ exitCode' = 1
    /\ UNCHANGED <<config, validated, listening, mainLog, conn, openConns,
                   nConns, HandlerLocals, table, call>>

AcceptSSLError ==
    /\ pc = "accept"
    /\ nAcceptFails < MaxAcceptFails
    /\ nAcceptFails' = nAcceptFails + 1
    /\ acceptLog' = "warning: TLS handshake failed"
    /\ pc' = "accept"
    /\ UNCHANGED <<MainVars, conn, openConns, nConns, HandlerLocals, table>>

\* accept() raises another Exception: error, continue
AcceptOtherError ==
    /\ pc = "accept"
    /\ nAcceptFails < MaxAcceptFails
    /\ nAcceptFails' = nAcceptFails + 1
    /\ acceptLog' = "error: Unexpected accept() error"
    /\ pc' = "accept"
    /\ UNCHANGED <<MainVars, conn, openConns, nConns, HandlerLocals, table>>

(***************************************************************************)
(* handle_client_connection                                                *)
(***************************************************************************)
\* where the handler goes once the port loop has done entry i - 1
AfterPort_SkipsWhenRulesExist(i) ==
    IF i > Len(config.PORTS) \/ table # EmptyBag THEN "send_ok" ELSE "ports"

AfterPort(i) == IF i > Len(config.PORTS) THEN "send_ok" ELSE "ports"

\* A branch of the if/elif chain: the target address, the direction, what
\* is logged and the next step.
\* "else": unknown command
UnknownBranch_FallsThrough ==
    [ip |-> <<>>, dir |-> "none",
     log |-> <<"error: Unknown command">>, next |-> "send_ok"]

UnknownBranch ==
    [ip |-> <<>>, dir |-> "none",
     log |-> <<"error: Unknown command">>, next |-> "send_ko"]

\* "OPEN <operand>" / "MEOPEN <operand>": validate, then open or close
AddressBranch_Unchecked(operand, dir) ==
    [ip |-> operand, dir |-> dir, log |-> <<>>, next |-> AfterPort(1)]

AddressBranch(operand, dir) ==
    IF ~is_valid_ip4_address(operand)
    THEN [ip |-> operand, dir |-> "none",
          log |-> <<"error: Invalid IP address format">>, next |-> "send_ko"]
    ELSE [ip |-> operand, dir |-> dir, log |-> <<>>, next |-> AfterPort(1)]

\* the branch taken for the stripped text d from peer
Dispatch(d, peer) ==
    IF d = OPEN_ME
    THEN [ip |-> peer, dir |-> "add", log |-> <<>>, next |-> AfterPort(1)]
    ELSE IF StartsWith(d, OPEN_)
    THEN AddressBranch(Strip(SliceFrom(d, 5)), "add")
    ELSE IF d = MEOPEN
    THEN [ip |-> peer, dir |-> "remove", log |-> <<>>, next |-> AfterPort(1)]
    ELSE IF StartsWith(d, MEOPEN_)
    THEN AddressBranch(Strip(SliceFrom(d, 7)), "remove")
    ELSE UnknownBranch

ConnFrame == <<MainVars, acceptLog, openConns, nConns, nAcceptFails, table>>

\* conn.recv(1024) raises (connection reset, TLS alert)
RecvFails ==
    /\ pc = "recv"
    /\ conn' = [conn EXCEPT !.fault = "recv"]
    /\ pc' = "except"
    /\ UNCHANGED <<ConnFrame, HandlerLocals>>

\* conn.recv(1024).decode() raises UnicodeDecodeError
DecodeFails ==
    /\ pc = "recv"
    /\ ~Decodable(conn.raw)
    /\ conn' = [conn EXCEPT !.fault = "decode"]
    /\ pc' = "except"
    /\ UNCHANGED <<ConnFrame, HandlerLocals>>

\* data = conn.recv(1024).decode().strip() and the if/elif chain up to the
\* call of open_ports / close_ports or the KO branch
RecvAndDispatch ==
    /\ pc = "recv"
    /\ Decodable(conn.raw)
    /\ data' = Strip(conn.raw)
    /\ LET b == Dispatch(data', conn.peer)
       IN  /\ ip_address' = b.ip
           /\ direction' = b.dir
           /\ idx' = IF b.dir = "none" THEN 0 ELSE 1
           /\ conn' = [conn EXCEPT !.log = @ \o b.log]
           /\ pc' = b.next
    /\ UNCHANGED ConnFrame

(***************************************************************************)
(* open_ports / close_ports: one iteration of "for port_info in ports".    *)
(***************************************************************************)
PortCommand ==
    generate_iptables_command(ip_address, config.PORTS[idx].port,
                              config.PORTS[idx].protocol, direction)

Request(command, result) == [command |-> command, result |-> result]

InPortLoop == pc = "ports" /\ idx <= Len(config.PORTS)

\* generate_iptables_command raises: the exception leaves the handler
GenerateRaises ==
    /\ conn' = [conn EXCEPT !.fault = PortCommand.exc]
    /\ pc' = "except"
    /\ UNCHANGED HandlerLocals

\* The rule an iptables command names.
Rule(command) ==
    [proto |-> command.proto, dport |-> command.dport, src |-> command.src]

\* What running an iptables command does to the chain t: -A appends the
\* rule, also when an identical one is there; -D deletes one matching rule
\* and exits with status 1, leaving the chain as it is, when there is none.
Iptables(command, t) ==
    IF command.op = "-A"
    THEN { [status |-> "exit 0", table |-> t (+) SetToBag({Rule(command)})] }
    ELSE IF BagIn(Rule(command), t)
    THEN { [status |-> "exit 0", table |-> t (-) SetToBag({Rule(command)})] }
    ELSE { [status |-> "exit 1", table |-> t] }

\* config.DEBUG: the command is only logged
LogRule_Executes ==
    /\ InPortLoop
    /\ config.DEBUG
    /\ IF PortCommand.exc # "none"
       THEN GenerateRaises /\ UNCHANGED table
       ELSE /\ PortCommand.command.prog = "iptables"
            /\ \E ran \in Iptables(PortCommand.command, table) :
                  /\ conn' = [conn EXCEPT
                       !.requests = Append(@, Request(PortCommand.command, ran.status))]
                  /\ table' = ran.table
            /\ idx' = idx + 1
            /\ pc' = AfterPort(idx + 1)
            /\ UNCHANGED <<data, ip_address, direction>>
    /\ UNCHANGED <<MainVars, acceptLog, openConns, nConns, nAcceptFails>>

LogRule ==
    /\ InPortLoop
    /\ config.DEBUG
    /\ IF PortCommand.exc # "none"
       THEN GenerateRaises
       ELSE /\ conn' = [conn EXCEPT
                          !.requests = Append(@, Request(PortCommand.command, "logged"))]
            /\ idx' = idx + 1
            /\ pc' = AfterPort(idx + 1)
            /\ UNCHANGED <<data, ip_address, direction>>
    /\ UNCHANGED ConnFrame

\* subprocess.run(command.split()) runs iptables, which exits with some
\* status; the CompletedProcess is dropped.
RunRule_Checked ==
    /\ InPortLoop
    /\ ~config.DEBUG
    /\ IF PortCommand.exc # "none"
       THEN GenerateRaises /\ UNCHANGED table
       ELSE /\ PortCommand.command.prog = "iptables"
            /\ \E ran \in Iptables(PortCommand.command, table) :
                  /\ conn' = [conn EXCEPT
                       !.requests = Append(@, Request(PortCommand.command, ran.status)),
                       !.fault = IF ran.status = "exit 0"
                                 THEN @ ELSE "CalledProcessError"]
                  /\ table' = ran.table
                  /\ idx' = IF ran.status = "exit 0" THEN idx + 1 ELSE idx
                  /\ pc' = IF ran.status = "exit 0"
                           THEN AfterPort(idx + 1) ELSE "except"
            /\ UNCHANGED <<data, ip_address, direction>>
    /\ UNCHANGED <<MainVars, acceptLog, openConns, nConns, nAcceptFails>>

RunRule ==
    /\ InPortLoop
    /\ ~config.DEBUG
    /\ IF PortCommand.exc # "none"
       THEN GenerateRaises /\ UNCHANGED table
       ELSE /\ PortCommand.command.prog = "iptables"
            /\ \E ran \in Iptables(PortCommand.command, table) :
                  /\ conn' = [conn EXCEPT
                       !.requests = Append(@, Request(PortCommand.command, ran.status))]
                  /\ table' = ran.table
            /\ idx' = idx + 1
            /\ pc' = AfterPort(idx + 1)
            /\ UNCHANGED <<data, ip_address, direction>>
    /\ UNCHANGED <<MainVars, acceptLog, openConns, nConns, nAcceptFails>>

\* subprocess.run raises: the program cannot be launched (no executable
\* named "Invalid"; iptables missing, fork failing)
RunRuleLaunchFails ==
    /\ InPortLoop
    /\ ~config.DEBUG
    /\ PortCommand.exc = "none"
    /\ conn' = [conn EXCEPT
                  !.requests = Append(@, Request(PortCommand.command, "not launched")),
                  !.fault = "OSError"]
    /\ pc' = "except"
    /\ UNCHANGED <<ConnFrame, HandlerLocals>>

(***************************************************************************)
(* The response and the close.                                             *)
(***************************************************************************)
\* the handler returns: its locals are gone
Return ==
    /\ data' = <<>>
    /\ ip_address' = <<>>
    /\ direction' = "none"
    /\ idx' = 0
    /\ pc' = "accept"

\* logger.info; conn.sendall("OK".encode()); conn.close()
SendOK_WithDetail ==
    /\ pc = "send_ok"
    /\ conn' = [conn EXCEPT !.written = <<"OK", "Ports opened">>,
                            !.log = Append(@, "info: Ports opened")]
    /\ openConns' = openConns \ {conn.id}
    /\ Return
    /\ UNCHANGED <<MainVars, acceptLog, nConns, nAcceptFails, table>>

SendOK ==
    /\ pc = "send_ok"
    /\ conn' = [conn EXCEPT !.written = Append(@, "OK"),
                            !.log = Append(@, "info: Ports opened")]
    /\ openConns' = openConns \ {conn.id}
    /\ Return
    /\ UNCHANGED <<MainVars, acceptLog, nConns, nAcceptFails, table>>

\* conn.sendall("KO".encode()); conn.close(); return
SendKO_NoClose ==
    /\ pc = "send_ko"
    /\ conn' = [conn EXCEPT !.written = Append(@, "KO")]
    /\ Return
    /\ UNCHANGED <<MainVars, acceptLog, openConns, nConns, nAcceptFails, table>>

SendKO ==
    /\ pc = "send_ko"
    /\ conn' = [conn EXCEPT !.written = Append(@, "KO")]
    /\ openConns' = openConns \ {conn.id}
    /\ Return
    /\ UNCHANGED <<MainVars, acceptLog, nConns, nAcceptFails, table>>

\* conn.sendall raises (the peer is gone)
SendFails ==
    /\ pc \in {"send_ok", "send_ko"}
    /\ conn' = [conn EXCEPT !.fault = "send",
                            !.log = IF pc = "send_ok"
                                    THEN Append(@, "info: Ports opened") ELSE @]
    /\ pc' = "except"
    /\ UNCHANGED <<ConnFrame, HandlerLocals>>

\* "except Exception" of start_listening: log, conn.close(), next accept
HandlerException_NoClose ==
    /\ pc = "except"
    /\ conn' = [conn EXCEPT !.log = Append(@, "error: Error handling client")]
    /\ Return
    /\ UNCHANGED <<MainVars, acceptLog, openConns, nConns, nAcceptFails, table>>

HandlerException_Propagates ==
    /\ pc = "except"
    /\ conn' = [conn EXCEPT !.log = Append(@, "error: Error handling client")]
    /\ openConns' = openConns \ {conn.id}
    /\ pc' = "exit"
    /\ exitCode' = 1
    /\ UNCHANGED <<config, validated, listening, mainLog, acceptLog, nConns,
                   nAcceptFails, HandlerLocals, table, call>>

HandlerException ==
    /\ pc = "except"
    /\ conn' = [conn EXCEPT !.log = Append(@, "error: Error handling client")]
    /\ openConns' = openConns \ {conn.id}
    /\ Return
    /\ UNCHANGED <<MainVars, acceptLog, nConns, nAcceptFails, table>>

Next ==
    \/ MainConfigFileMissing
    \/ MainYamlError
    \/ MainConfigNotAMapping
    \/ MainLoadConfig
    \/ RunAsDaemon
    \/ StartListening
    \/ StartListeningBindFails
    \/ Accept
    \/ AcceptSSLError
    \/ AcceptOtherError
    \/ RecvFails
    \/ DecodeFails
    \/ RecvAndDispatch
    \/ LogRule
    \/ RunRule
    \/ RunRuleLaunchFails
    \/ SendOK
    \/ SendKO
    \/ SendFails
    \/ HandlerException

Spec == Init /\ [][Next]_vars

\* The handler and the loop around it are sequential code: once a connection
\* is accepted, the next statement runs.
HandlerStep ==
    \/ RecvFails
    \/ DecodeFails
    \/ RecvAndDispatch
    \/ LogRule
    \/ RunRule
    \/ RunRuleLaunchFails
    \/ SendOK
    \/ SendKO
    \/ SendFails
    \/ HandlerException

FairSpec == Spec /\ WF_vars(HandlerStep)

(***************************************************************************)
(* The daemon at work on the firewall: it is listening with the default    *)
(* ports and DEBUG off, the chain is empty, and clients send well-formed   *)
(* commands over connections that do not fail.                             *)
(***************************************************************************)
Commands == {OPEN_ME, MEOPEN, OPEN_ \o Addr10_0_0_5, MEOPEN_ \o Addr10_0_0_5}

TableInit ==
    /\ pc = "accept"
    /\ config = merge_configs(default_config, [DEBUG |-> FALSE])
    /\ validated = TRUE
    /\ listening = TRUE
    /\ exitCode = -1
    /\ mainLog = <<>>
    /\ acceptLog = "none"
    /\ conn = NoConn
    /\ openConns = {}
    /\ nConns = 0
    /\ nAcceptFails = 0
    /\ data = <<>>
    /\ ip_address = <<>>
    /\ direction = "none"
    /\ idx = 0
    /\ table = EmptyBag
    /\ call = NoCall

AcceptCommand == AcceptFrom(Commands, MaxCommands)

TableNext ==
    \/ AcceptCommand
    \/ RecvAndDispatch
    \/ RunRule
    \/ SendOK

TableSpec == TableInit /\ [][TableNext]_vars

(***************************************************************************)
(* The functions applied on their own: the function and its argument are   *)
(* chosen at the start, the one step applies the function.                 *)
(***************************************************************************)
Dotted(a, b, c, d) == a \o <<".">> \o b \o <<".">> \o c \o <<".">> \o d

\* texts put where an octet goes
OctetTexts ==
    { <<"0">>, <<"7">>, <<"1", "0">>, <<"9", "9">>, <<"1", "9", "9">>,
      <<"2", "4", "9">>, <<"2", "5", "5">>, <<"2", "5", "6">>,
      <<"3", "0", "0">>, <<"0", "0">>, <<"0", "1">>, <<"0", "1", "0">>,
      <<"1", "0", "0", "0">>, <<>>, <<"a">>, <<"-", "1">>, <<" ", "1">>,
      <<ArabicIndicThree>>, <<"1", ArabicIndicThree>> }

Addr192_168_1_1 == Dotted(<<"1", "9", "2">>, <<"1", "6", "8">>, <<"1">>, <<"1">>)

AddressTexts ==
    { Dotted(a, <<"1", "6", "8">>, <<"1">>, d) : a, d \in OctetTexts }
    \cup { Dotted(<<"1", "0">>, b, <<"0">>, <<"5">>) : b \in OctetTexts }
    \cup { pre \o Addr192_168_1_1 \o suf :
              pre \in {<<>>, <<" ">>, <<"\n">>, <<"x">>},
              suf \in {<<>>, <<"\n">>, <<" ">>, <<"\r", "\n">>, <<"\n", "\n">>,
                       <<".">>, <<"x">>, <<".", "1">>} }
    \cup { <<>>, <<"\n">>, <<"1", ".", "2", ".", "3">>, <<"1", "2", "3", "4">>,
           <<"1", ".", "2", ".", "3", "4">>, <<"1", " ", "2", " ", "3", " ", "4">>,
           <<"1", ".", "2", ".", "3", ".", " ", "4">>,
           <<"l", "o", "c", "a", "l", "h", "o", "s", "t">> }

AddressCalls ==
    { [fn |-> "is_valid_ip4_address", arg |-> s, done |-> FALSE, result |-> <<>>] :
         s \in AddressTexts }

\* configurations as merge_configs hands them to validate_config
ConfigCandidates ==
    { [BIND_ADDRESS |-> b, LISTENING_PORT |-> l, PORTS |-> p, CERT_FILE |-> c,
       KEY_FILE |-> k, CA_CERT_FILE |-> a, DEBUG |-> TRUE] :
         b \in {default_config.BIND_ADDRESS, <<"0", ".", "0", ".", "0">>},
         l \in {54154, 0, 70000},
         p \in PortsOptions,
         c \in {"../certs/server.crt", "/nonexistent.crt", "/etc/hostname"},
         k \in {"../certs/server.key", "../certs/server.crt"},
         a \in {"../certs/ca.crt", "/nonexistent.crt"} }

\* (address, port, protocol) tuples for generate_iptables_command
RuleTuples ==
    { [ip |-> a, port |-> n, protocol |-> t] :
         a \in {Addr10_0_0_5, Addr192_168_1_1,
                <<"2", "5", "6", ".", "1", ".", "1", ".", "1">>,
                <<"n", "o", "t", "-", "a", "n", "-", "i", "p">>},
         n \in {0, 1, 22, 80, 443, 65535, 65536},
         t \in {tcp, udp, <<"T", "C", "P">>, <<"U", "d", "p">>,
                <<"i", "c", "m", "p">>, <<>>} }

BuilderCalls ==
    { [fn |-> "generate_iptables_command", arg |-> t, done |-> FALSE,
       result |-> <<>>] : t \in RuleTuples }

\* args.ip_address when -i is not given
None == <<"<None>">>

\* The client, from the parsed arguments to what it sends: the guard that
\* prints the help and exits, then the message for the selection.
client_message(args) ==
    IF args.miopen
    THEN IF args.ip_address = None
         THEN MEOPEN
         ELSE <<"M", "I", "O", "P", "E", "N", " ">> \o args.ip_address
    ELSE IF args.ip_address = None
         THEN OPEN_ME
         ELSE OPEN_ \o args.ip_address

client(args) ==
    IF ~args.me \/ args.openme \/ args.miopen
    THEN [help |-> TRUE, sent |-> <<>>]
    ELSE IF args.openme \/ args.miopen
    THEN [help |-> FALSE, sent |-> <<client_message(args)>>]
    ELSE [help |-> FALSE, sent |-> <<>>]

ClientArgs ==
    { [me |-> e, openme |-> o, miopen |-> m, ip_address |-> a] :
         e \in BOOLEAN, o \in BOOLEAN, m \in BOOLEAN,
         a \in {None, Addr10_0_0_5, Addr192_168_1_1,
                <<"n", "o", "t", "-", "a", "n", "-", "i", "p">>} }

ClientCalls ==
    { [fn |-> "client", arg |-> a, done |-> FALSE, result |-> <<>>] :
         a \in ClientArgs }

\* one-entry port lists for validate_ports
PortEntries ==
    { <<[port |-> n, protocol |-> t]>> :
         n \in {-1, 0, 1, 80, 65535, 65536, 70000},
         t \in {tcp, udp, <<"T", "C", "P">>, <<"U", "d", "p">>, <<"u", "D", "P">>,
                <<"i", "c", "m", "p">>, <<"t", "c">>, <<"t", "c", "p", " ">>,
                <<"t", "c", "p", "p">>, <<>>} }

PortsCalls ==
    { [fn |-> "validate_ports", arg |-> e, done |-> FALSE, result |-> <<>>] :
         e \in PortEntries }

ConfigCalls ==
    { [fn |-> "validate_config", arg |-> c, done |-> FALSE, result |-> <<>>] :
         c \in ConfigCandidates }

PureInit ==
    /\ pc = "main"
    /\ config = default_config
    /\ validated = FALSE
    /\ listening = FALSE
    /\ exitCode = -1
    /\ mainLog = <<>>
    /\ acceptLog = "none"
    /\ conn = NoConn
    /\ openConns = {}
    /\ nConns = 0
    /\ nAcceptFails = 0
    /\ data = <<>>
    /\ ip_address = <<>>
    /\ direction = "none"
    /\ idx = 0
    /\ table = EmptyBag
    /\ \/ call \in AddressCalls
       \/ call \in ConfigCalls
       \/ call \in BuilderCalls
       \/ call \in ClientCalls
       \/ call \in PortsCalls

ProgramVars ==
    <<pc, config, validated, listening, exitCode, mainLog, acceptLog, conn,
      openConns, nConns, nAcceptFails, data, ip_address, direction, idx, table>>

Apply_is_valid_ip4_address ==
    /\ call.fn = "is_valid_ip4_address"
    /\ ~call.done
    /\ call' = [call EXCEPT !.done = TRUE,
                            !.result = is_valid_ip4_address(call.arg)]
    /\ UNCHANGED ProgramVars

Apply_validate_config ==
    /\ call.fn = "validate_config"
    /\ ~call.done
    /\ call' = [call EXCEPT !.done = TRUE,
                            !.result = [error |-> validate_config(call.arg),
                                        checks |-> validate_config_trace(call.arg)]]
    /\ UNCHANGED ProgramVars

\* the builder called with action "add" and with action "remove"
Apply_generate_iptables_command ==
    /\ call.fn = "generate_iptables_command"
    /\ ~call.done
    /\ call' = [call EXCEPT
                  !.done = TRUE,
                  !.result =
                      [add |-> generate_iptables_command(
                                   call.arg.ip, call.arg.port, call.arg.protocol, "add"),
                       remove |-> generate_iptables_command(
                                   call.arg.ip, call.arg.port, call.arg.protocol, "remove")]]
    /\ UNCHANGED ProgramVars

Apply_client ==
    /\ call.fn = "client"
    /\ ~call.done
    /\ call' = [call EXCEPT !.done = TRUE, !.result = client(call.arg)]
    /\ UNCHANGED ProgramVars

\* validate_ports on the list, and the two predicates on its entry
Apply_validate_ports ==
    /\ call.fn = "validate_ports"
    /\ ~call.done
    /\ call' = [call EXCEPT
                  !.done = TRUE,
                  !.result =
                      [port_valid |-> is_valid_port_number(call.arg[1].port),
                       protocol_valid |-> is_valid_protocol(call.arg[1].protocol),
                       error |-> validate_ports(call.arg)]]
    /\ UNCHANGED ProgramVars

PureNext ==
    \/ Apply_is_valid_ip4_address
    \/ Apply_validate_config
    \/ Apply_generate_iptables_command
    \/ Apply_client
    \/ Apply_validate_ports

PureSpec == PureInit /\ [][PureNext]_vars

(***************************************************************************)
(* Vocabulary of the properties.                                           *)
(***************************************************************************)
\* the connection accepted last has been closed
Closed == conn.id > 0 /\ conn.id \notin openConns

\* the text the handler works on
Trimmed == Strip(conn.raw)

\* the operand of "OPEN <x>" / "MEOPEN <x>", as the handler extracts it
OpenOperand == Strip(SliceFrom(Trimmed, 5))
CloseOperand == Strip(SliceFrom(Trimmed, 7))

IsOpenAddr == Trimmed # OPEN_ME /\ StartsWith(Trimmed, OPEN_)
IsCloseAddr == StartsWith(Trimmed, MEOPEN_)

BadAddressCommand ==
    /\ conn.id > 0
    /\ Decodable(conn.raw)
    /\ \/ IsOpenAddr /\ ~is_valid_ip4_address(OpenOperand)
       \/ IsCloseAddr /\ ~is_valid_ip4_address(CloseOperand)

KnownCommand ==
    \/ Trimmed = OPEN_ME
    \/ Trimmed = MEOPEN
    \/ IsOpenAddr /\ is_valid_ip4_address(OpenOperand)
    \/ IsCloseAddr /\ is_valid_ip4_address(CloseOperand)

UnknownCommand == conn.id > 0 /\ Decodable(conn.raw) /\ ~KnownCommand

\* the handler was not cut short by an I/O error on the connection itself
NoTransportFault == conn.fault \notin {"recv", "send"}

OnlyKOWritten ==
    /\ Len(conn.written) <= 1
    /\ \A i \in 1..Len(conn.written) : conn.written[i] = "KO"

(***************************************************************************)
(* C1: a connection whose payload is OPEN <x> or MEOPEN <x> with x not a   *)
(* valid address makes no rule request, logged or run, and nothing but KO  *)
(* is written to it; KO is written unless the connection itself fails.     *)
(***************************************************************************)
C1_BadAddressNoRules ==
    BadAddressCommand =>
        /\ conn.requests = <<>>
        /\ OnlyKOWritten
        /\ (Closed /\ NoTransportFault => conn.written = <<"KO">>)

C1_Witness ==
    /\ BadAddressCommand
    /\ Closed
    /\ conn.written = <<"KO">>
    /\ conn.log = <<"error: Invalid IP address format">>

(***************************************************************************)
(* C2: a connection whose trimmed payload is none of OPEN ME, OPEN <addr>, *)
(* MEOPEN, MEOPEN <addr> (case-sensitive) makes no rule request and is     *)
(* answered KO.                                                            *)
(***************************************************************************)
C2_UnknownCommandNoRules ==
    UnknownCommand =>
        /\ conn.requests = <<>>
        /\ direction = "none"
        /\ OnlyKOWritten
        /\ (Closed /\ NoTransportFault => conn.written = <<"KO">>)

C2_Witness ==
    /\ UnknownCommand
    /\ ~BadAddressCommand
    /\ Trimmed = <<"o", "p", "e", "n", " ", "m", "e">>
    /\ Closed
    /\ conn.written = <<"KO">>

(***************************************************************************)
(* C3: OK is written only if every rule change of the command succeeded:   *)
(* when an invocation of the firewall tool exits non-zero, the response is *)
(* not OK.                                                                 *)
(***************************************************************************)
C3_OKOnlyIfAllSucceeded ==
    (\E i \in 1..Len(conn.requests) : conn.requests[i].result = "exit 1")
        => \A j \in 1..Len(conn.written) : conn.written[j] # "OK"

(***************************************************************************)
(* C4: with a port list of 3 tcp/udp entries where the rule application of *)
(* entry 2 fails (non-zero exit or the tool not launching), entries 1 and  *)
(* 3 are still applied and the command is reported as failed.              *)
(***************************************************************************)
C4_ContinuesPastFailure ==
    ( /\ Closed
      /\ NoTransportFault
      /\ Len(config.PORTS) = 3
      /\ \A i \in 1..3 : config.PORTS[i].protocol \in {tcp, udp}
      /\ Len(conn.requests) >= 2
      /\ conn.requests[1].result = "exit 0"
      /\ conn.requests[2].result \in {"exit 1", "not launched"} )
    => /\ Len(conn.requests) = 3
       /\ conn.requests[3].result \in {"exit 0", "exit 1"}
       /\ \A j \in 1..Len(conn.written) : conn.written[j] # "OK"

(***************************************************************************)
(* C5: every accepted connection is eventually closed, whatever path the   *)
(* handler takes.                                                          *)
(***************************************************************************)
C5_EventuallyClosed ==
    \A c \in 1..MaxConns : (c \in openConns) ~> (c \notin openConns)

C5_Witness ==
    /\ Closed
    /\ conn.fault = "OSError"
    /\ conn.requests # <<>>

(***************************************************************************)
(* C6: every accepted connection has exactly one status token, OK or KO,   *)
(* written to it before it is closed, also when the payload cannot be      *)
(* decoded or rule application faults.                                     *)
(***************************************************************************)
C6_ExactlyOneToken ==
    Closed /\ NoTransportFault =>
        /\ Len(conn.written) = 1
        /\ conn.written[1] \in {"OK", "KO"}

(***************************************************************************)
(* C7: a failed accept (ssl.SSLError or another exception) leaves the      *)
(* listener accepting, with nothing else changed, and a connection         *)
(* accepted after any number of failed accepts gets the response its       *)
(* payload calls for.                                                      *)
(***************************************************************************)
C7_ListenerSurvivesFailedAccepts ==
    /\ [][nAcceptFails' # nAcceptFails =>
             /\ pc' = "accept"
             /\ listening'
             /\ exitCode' = -1
             /\ UNCHANGED <<config, conn, openConns, nConns>>]_vars
    /\ [](conn.failsBefore > 0 /\ Closed /\ conn.fault = "none" =>
             conn.written = IF KnownCommand THEN <<"OK">> ELSE <<"KO">>)

C7_Witness ==
    /\ conn.failsBefore >= 2
    /\ Closed
    /\ KnownCommand
    /\ conn.written = <<"OK">>
    /\ pc = "accept"

(***************************************************************************)
(* C8: an exception raised while handling a connection is caught by the    *)
(* accept loop, which closes the connection and goes back to accept; once  *)
(* listening, the process never exits.                                     *)
(***************************************************************************)
C8_HandlerFaultsStayInLoop ==
    /\ [][/\ (conn.fault = "none" /\ conn'.fault # "none") => pc' = "except"
          /\ pc = "except" =>
                /\ pc' = "accept"
                /\ conn.id \notin openConns'
                /\ listening'
                /\ exitCode' = -1]_vars
    /\ [](listening => pc # "exit" /\ exitCode = -1)

C8_Witness ==
    /\ conn.faultsBefore >= 1
    /\ Closed
    /\ conn.fault = "decode"
    /\ pc = "accept"
    /\ listening

(***************************************************************************)
(* C9: main reaches start_listening or run_as_daemon only with a config on *)
(* which validate_config has completed successfully.                       *)
(***************************************************************************)
C9_ListensOnlyValidated ==
    (pc \in {"start_listening", "run_as_daemon"} \/ listening) => validated

(***************************************************************************)
(* C10: for OPEN <addr> with a valid address the requests made are, in     *)
(* configuration order, one iptables append per PORTS entry for exactly    *)
(* (addr, entry.port, entry.protocol), and the response is OK when all     *)
(* succeed.                                                                *)
(***************************************************************************)
AddRule(addr, entry) ==
    [prog |-> "iptables", op |-> "-A", chain |-> "openme",
     proto |-> entry.protocol, dport |-> entry.port, src |-> addr,
     jump |-> "ACCEPT"]

C10_OneAddPerEntry ==
    ( /\ conn.id > 0
      /\ Decodable(conn.raw)
      /\ IsOpenAddr
      /\ is_valid_ip4_address(OpenOperand) )
    => /\ Len(conn.requests) <= Len(config.PORTS)
       /\ \A i \in 1..Len(conn.requests) :
             conn.requests[i].command = AddRule(OpenOperand, config.PORTS[i])
       /\ ( /\ Closed
            /\ NoTransportFault
            /\ \A i \in 1..Len(conn.requests) :
                  conn.requests[i].result \in {"exit 0", "logged"} )
          => /\ Len(conn.requests) = Len(config.PORTS)
             /\ conn.written = <<"OK">>

(***************************************************************************)
(* C11: every rule request of a connection targets the resolved address    *)
(* and the direction of its command: OPEN ME only appends for the peer,    *)
(* OPEN <addr> only appends for addr, MEOPEN only deletes for the peer,    *)
(* MEOPEN <addr> only deletes for addr; a connection never makes both      *)
(* append and delete requests, nor requests for two addresses.             *)
(***************************************************************************)
\* the address and the iptables operation the payload of conn calls for
Resolved ==
    IF Trimmed = OPEN_ME THEN [src |-> conn.peer, op |-> "-A"]
    ELSE IF IsOpenAddr THEN [src |-> OpenOperand, op |-> "-A"]
    ELSE IF Trimmed = MEOPEN THEN [src |-> conn.peer, op |-> "-D"]
    ELSE [src |-> CloseOperand, op |-> "-D"]

C11_RequestsTargetResolved ==
    \A i \in 1..Len(conn.requests) :
        /\ KnownCommand
        /\ conn.requests[i].command.op = Resolved.op
        /\ conn.requests[i].command.src = Resolved.src
        /\ conn.requests[i].command.chain = "openme"

(***************************************************************************)
(* C12: connections are handled strictly one at a time: at most one        *)
(* accepted connection is open, accept() is called only when the previous  *)
(* connection is closed, and rule requests are only ever added for the one *)
(* open connection.                                                        *)
(***************************************************************************)
C12_OneConnectionAtATime ==
    /\ [](Cardinality(openConns) <= 1)
    /\ [](pc = "accept" => openConns = {})
    /\ [][/\ nConns' # nConns =>
                /\ openConns = {}
                /\ openConns' = {nConns'}
          /\ (conn'.requests # conn.requests /\ conn'.requests # <<>>) =>
                /\ conn'.id = conn.id
                /\ openConns = {conn.id}]_vars

C12_Witness ==
    /\ conn.id = 2
    /\ openConns = {2}
    /\ pc = "ports"
    /\ conn.requests # <<>>

(***************************************************************************)
(* C13: close is idempotent.  A MEOPEN / MEOPEN <addr> for an address that *)
(* has no rule in the chain is not an error: iptables reports each missing *)
(* rule, the handler does not fail on that, the chain stays as it was (so  *)
(* that a repeated close finds it the same) and the response is OK.        *)
(***************************************************************************)
NoRuleFor(addr, t) == \A r \in BagToSet(t) : r.src # addr

\* conn carries a close command for an address without a rule in the chain
CloseOfAbsent ==
    /\ conn.id > 0
    /\ Decodable(conn.raw)
    /\ \/ Trimmed = MEOPEN
       \/ IsCloseAddr /\ is_valid_ip4_address(CloseOperand)
    /\ NoRuleFor(Resolved.src, conn.tableBefore)

C13_CloseIdempotent ==
    CloseOfAbsent =>
        /\ table = conn.tableBefore
        /\ \A i \in 1..Len(conn.requests) :
              conn.requests[i].result \in {"exit 1", "logged", "not launched"}
        /\ conn.fault \in {"none", "recv", "send", "OSError"}
        /\ (Closed /\ conn.fault = "none") =>
              /\ conn.written = <<"OK">>
              /\ Len(conn.requests) = Len(config.PORTS)

C13_Witness ==
    /\ CloseOfAbsent
    /\ conn.id = 2
    /\ conn.tableBefore # EmptyBag
    /\ Closed
    /\ conn.requests # <<>>
    /\ \A i \in 1..Len(conn.requests) : conn.requests[i].result = "exit 1"
    /\ conn.written = <<"OK">>
    /\ table = conn.tableBefore

(***************************************************************************)
(* C14: with config.DEBUG true no command runs the firewall tool: every    *)
(* rule request is only logged, the chain never changes, and every valid   *)
(* command is answered OK.                                                 *)
(***************************************************************************)
C14_DebugIsDryRun ==
    /\ [][config.DEBUG => table' = table]_vars
    /\ [](config.DEBUG =>
            /\ table = EmptyBag
            /\ \A i \in 1..Len(conn.requests) :
                  conn.requests[i].result = "logged"
            /\ ( /\ conn.id > 0
                 /\ Decodable(conn.raw)
                 /\ KnownCommand
                 /\ Closed
                 /\ NoTransportFault )
               => /\ conn.written = <<"OK">>
                  /\ Len(conn.requests) = Len(config.PORTS))

C14_Witness ==
    /\ config.DEBUG
    /\ conn.id = 2
    /\ Trimmed = OPEN_ME
    /\ Closed
    /\ Len(conn.requests) = 3
    /\ \A i \in 1..3 : conn.requests[i].result = "logged"
    /\ conn.written = <<"OK">>
    /\ table = EmptyBag

(***************************************************************************)
(* C15: all the daemon ever writes to a connection is OK or KO, at most    *)
(* one of them per connection; error details, addresses and command text   *)
(* go to the log only.                                                     *)
(***************************************************************************)
C15_OnlyStatusTokens ==
    /\ [](/\ Len(conn.written) <= 1
          /\ \A i \in 1..Len(conn.written) : conn.written[i] \in {"OK", "KO"})
    /\ [][conn'.written # conn.written =>
             \/ conn'.written = <<>> /\ conn'.id = conn.id + 1
             \/ /\ conn.written = <<>>
                /\ conn'.id = conn.id
                /\ conn.id \notin openConns']_vars

C15_Witness ==
    /\ conn.id = 2
    /\ Closed
    /\ UnknownCommand
    /\ conn.log = <<"error: Unknown command">>
    /\ conn.written = <<"KO">>

(***************************************************************************)
(* C16: is_valid_ip4_address returns true exactly for the strings made of  *)
(* four decimal octets separated by dots, each in 0..255 and without a     *)
(* leading zero (other than "0"), and false for everything else, a string  *)
(* with leading or trailing whitespace such as a final newline included.   *)
(***************************************************************************)
AsciiDigits == <<"0", "1", "2", "3", "4", "5", "6", "7", "8", "9">>

RECURSIVE Decimal(_)
Decimal(s) ==
    IF s = <<>> THEN 0
    ELSE 10 * Decimal(SubSeq(s, 1, Len(s) - 1))
         + (CHOOSE n \in 0..9 : AsciiDigits[n + 1] = s[Len(s)])

\* the parts of s between its dots
RECURSIVE SplitDots(_)
SplitDots(s) ==
    IF \A i \in 1..Len(s) : s[i] # "."
    THEN <<s>>
    ELSE LET i == CHOOSE k \in 1..Len(s) :
                     s[k] = "." /\ \A j \in 1..(k - 1) : s[j] # "."
         IN  <<SubSeq(s, 1, i - 1)>> \o SplitDots(SubSeq(s, i + 1, Len(s)))

IsStrictOctet(o) ==
    /\ Len(o) \in 1..3
    /\ \A i \in 1..Len(o) : o[i] \in Digits
    /\ Len(o) > 1 => o[1] # "0"
    /\ Decimal(o) <= 255

IsStrictIPv4(s) ==
    /\ Len(SplitDots(s)) = 4
    /\ \A i \in 1..4 : IsStrictOctet(SplitDots(s)[i])

C16_StrictDottedQuad ==
    (call.fn = "is_valid_ip4_address" /\ call.done) =>
        call.result = IsStrictIPv4(call.arg)

(***************************************************************************)
(* C17: validate_config checks BIND_ADDRESS, LISTENING_PORT, every PORTS    *)
(* entry (its port, then its protocol), CERT_FILE, KEY_FILE, CA_CERT_FILE   *)
(* in this order and raises at the first check that fails: the error is    *)
(* that of the earliest invalid field and no later check is made.          *)
(***************************************************************************)
RECURSIVE PortsOrder(_)
PortsOrder(n) ==
    IF n = 0 THEN <<>>
    ELSE PortsOrder(n - 1) \o <<Check("PORTS", n, "port"), Check("PORTS", n, "protocol")>>

\* every check there is for c, in the order of the claim
CheckOrder(c) ==
    <<Check("BIND_ADDRESS", 0, "address"), Check("LISTENING_PORT", 0, "port")>>
    \o PortsOrder(Len(c.PORTS))
    \o <<Check("CERT_FILE", 0, "certificate"), Check("KEY_FILE", 0, "key"),
         Check("CA_CERT_FILE", 0, "certificate")>>

\* the field the check k looks at is valid in c
Passes(k, c) ==
    CASE k.field = "BIND_ADDRESS" -> is_valid_ip4_address(c.BIND_ADDRESS)
      [] k.field = "LISTENING_PORT" -> is_valid_port_number(c.LISTENING_PORT)
      [] k.field = "PORTS" /\ k.what = "port" ->
            is_valid_port_number(c.PORTS[k.entry].port)
      [] k.field = "PORTS" /\ k.what = "protocol" ->
            is_valid_protocol(c.PORTS[k.entry].protocol)
      [] k.field = "CERT_FILE" -> FileState(c.CERT_FILE) = "certificate"
      [] k.field = "KEY_FILE" -> FileState(c.KEY_FILE) = "private_key"
      [] k.field = "CA_CERT_FILE" -> FileState(c.CA_CERT_FILE) = "certificate"

ErrorOf(k) ==
    CASE k.field = "BIND_ADDRESS" -> "RuntimeError: BIND_ADDRESS"
      [] k.field = "LISTENING_PORT" -> "RuntimeError: LISTENING_PORT"
      [] k.field = "PORTS" /\ k.what = "port" -> "InvalidPortNumber"
      [] k.field = "PORTS" /\ k.what = "protocol" -> "InvalidProtocol"
      [] k.field = "CERT_FILE" -> "InvalidCertificateError: CERT_FILE"
      [] k.field = "KEY_FILE" -> "InvalidKeyError: KEY_FILE"
      [] k.field = "CA_CERT_FILE" -> "InvalidCertificateError: CA_CERT_FILE"

Failing(c) == { i \in 1..Len(CheckOrder(c)) : ~Passes(CheckOrder(c)[i], c) }

FirstFailing(c) == CHOOSE i \in Failing(c) : \A j \in Failing(c) : i <= j

C17_FirstFailureInOrder ==
    (call.fn = "validate_config" /\ call.done) =>
        IF Failing(call.arg) = {}
        THEN /\ call.result.error = "ok"
             /\ call.result.checks = CheckOrder(call.arg)
        ELSE /\ call.result.error = ErrorOf(CheckOrder(call.arg)[FirstFailing(call.arg)])
             /\ call.result.checks =
                   SubSeq(CheckOrder(call.arg), 1, FirstFailing(call.arg))

C17_Witness ==
    /\ call.fn = "validate_config"
    /\ call.done
    /\ Cardinality(Failing(call.arg)) >= 3
    /\ call.result.error = "InvalidProtocol"
    /\ Len(call.result.checks) = 4
    /\ FileState(call.arg.CERT_FILE) = "missing"

(***************************************************************************)
(* C18: a loaded config whose LISTENING_PORT is outside 1..65535 (70000)   *)
(* or whose CERT_FILE names a path that does not exist makes main exit     *)
(* with failure before start_listening binds the socket.                   *)
(***************************************************************************)
RejectedConfig ==
    \/ config.LISTENING_PORT \notin 1..65535
    \/ FileState(config.CERT_FILE) = "missing"

C18_BadConfigExitsBeforeBind ==
    RejectedConfig =>
        /\ pc = "exit"
        /\ exitCode = 1
        /\ ~validated
        /\ ~listening
        /\ nConns = 0

C18_Witness ==
    /\ config.LISTENING_PORT = 70000
    /\ FileState(config.CERT_FILE) = "certificate"
    /\ pc = "exit"
    /\ exitCode = 1
    /\ mainLog = <<"Config Error">>
    /\ ~listening

(***************************************************************************)
(* C19: for every valid (address, port, protocol) the add and the remove   *)
(* request of generate_iptables_command are distinct and differ only in    *)
(* the rule operation, append against delete, both naming the rule         *)
(* (address, port, protocol).                                              *)
(***************************************************************************)
ValidTuple(t) ==
    /\ is_valid_ip4_address(t.ip)
    /\ is_valid_port_number(t.port)
    /\ is_valid_protocol(t.protocol)

C19_AddRemoveDifferInOperation ==
    (call.fn = "generate_iptables_command" /\ call.done /\ ValidTuple(call.arg)) =>
        /\ call.result.add.exc = "none"
        /\ call.result.remove.exc = "none"
        /\ call.result.add.command # call.result.remove.command
        /\ call.result.add.command.op = "-A"
        /\ call.result.remove.command =
              [call.result.add.command EXCEPT !.op = "-D"]
        /\ Rule(call.result.add.command) =
              [proto |-> call.arg.protocol, dport |-> call.arg.port,
               src |-> call.arg.ip]

(***************************************************************************)
(* C20: each selection of the client, --openme, --openme -i A, --miopen,   *)
(* --miopen -i A, makes it send exactly one of the wire commands OPEN ME,  *)
(* OPEN A, MEOPEN, MEOPEN A, which the server dispatches as the open or    *)
(* close for the caller or for A that was selected.                        *)
(***************************************************************************)
\* the wire command of the selection args
WireCommand(args) ==
    IF args.openme
    THEN IF args.ip_address = None THEN OPEN_ME ELSE OPEN_ \o args.ip_address
    ELSE IF args.ip_address = None THEN MEOPEN ELSE MEOPEN_ \o args.ip_address

\* open or close is selected, with no address or a well-formed one
Selection(args) ==
    /\ args.openme # args.miopen
    /\ args.ip_address # None => is_valid_ip4_address(args.ip_address)

C20_ClientSendsWireCommand ==
    (call.fn = "client" /\ call.done /\ Selection(call.arg)) =>
        /\ call.result.sent = <<WireCommand(call.arg)>>
        /\ Dispatch(Strip(call.result.sent[1]), Addr192_168_1_1).dir =
              IF call.arg.openme THEN "add" ELSE "remove"
        /\ Dispatch(Strip(call.result.sent[1]), Addr192_168_1_1).ip =
              IF call.arg.ip_address = None
              THEN Addr192_168_1_1 ELSE call.arg.ip_address

(***************************************************************************)
(* C21: nothing is retained across connections: the rule requests made for *)
(* a connection and its response are a function of its payload, its peer   *)
(* address and the config alone, whatever connections came before, failed  *)
(* ones included, and handling connections leaves the config unchanged.    *)
(***************************************************************************)
\* what the payload, the peer and the config of conn call for
ExpectedBranch == Dispatch(Strip(conn.raw), conn.peer)

ExpectedCommands ==
    IF ExpectedBranch.dir = "none"
    THEN <<>>
    ELSE [i \in 1..Len(config.PORTS) |->
             generate_iptables_command(ExpectedBranch.ip, config.PORTS[i].port,
                                       config.PORTS[i].protocol,
                                       ExpectedBranch.dir).command]

ExpectedResponse == IF ExpectedBranch.dir = "none" THEN <<"KO">> ELSE <<"OK">>

C21_NoStateAcrossConnections ==
    /\ [][listening => config' = config]_vars
    /\ [](conn.id > 0 =>
            IF Decodable(conn.raw)
            THEN /\ Len(conn.requests) <= Len(ExpectedCommands)
                 /\ \A i \in 1..Len(conn.requests) :
                       conn.requests[i].command = ExpectedCommands[i]
                 /\ (Closed /\ conn.fault = "none") =>
                       /\ Len(conn.requests) = Len(ExpectedCommands)
                       /\ conn.written = ExpectedResponse
            ELSE conn.requests = <<>> /\ conn.written = <<>>)

C21_Witness ==
    /\ conn.id = 2
    /\ conn.faultsBefore = 1
    /\ conn.tableBefore # EmptyBag
    /\ Trimmed = OPEN_ME
    /\ Closed
    /\ conn.fault = "none"
    /\ Len(conn.requests) = Len(config.PORTS)
    /\ conn.written = <<"OK">>

(***************************************************************************)
(* C22: is_valid_port_number(p) is true iff 1 <= p <= 65535 (0 and 65536   *)
(* rejected, 65535 accepted), is_valid_protocol(s) is true iff s equals    *)
(* "tcp" or "udp" ignoring case, and validate_ports tells an invalid port  *)
(* (InvalidPortNumber) from an invalid protocol (InvalidProtocol).         *)
(***************************************************************************)
\* s and t are the same text up to the case of their letters
EqualIgnoringCase(s, t) ==
    /\ Len(s) = Len(t)
    /\ \A i \in 1..Len(s) :
          \/ s[i] = t[i]
          \/ \E k \in 1..26 : {s[i], t[i]} = {UpperAlphabet[k], LowerAlphabet[k]}

C22_PortAndProtocolRanges ==
    (call.fn = "validate_ports" /\ call.done) =>
        /\ call.result.port_valid =
              (1 <= call.arg[1].port /\ call.arg[1].port <= 65535)
        /\ call.result.protocol_valid =
              (\/ EqualIgnoringCase(call.arg[1].protocol, tcp)
               \/ EqualIgnoringCase(call.arg[1].protocol, udp))
        /\ call.result.error =
              IF ~call.result.port_valid THEN "InvalidPortNumber"
              ELSE IF ~call.result.protocol_valid THEN "InvalidProtocol"
              ELSE "ok"

C22_Witness ==
    /\ call.fn = "validate_ports"
    /\ call.done
    /\ call.arg[1].port = 65535
    /\ call.arg[1].protocol = <<"U", "d", "p">>
    /\ call.result.port_valid
    /\ call.result.protocol_valid
    /\ call.result.error = "ok"

(***************************************************************************)
(* C23: validation and rule building agree: for every PORTS entry that     *)
(* validate_ports accepts, a protocol spelt "TCP" included, and every      *)
(* valid address, generate_iptables_command returns an iptables command,   *)
(* never an error sentence, so that open_ports / close_ports never log or  *)
(* run anything but an iptables command.                                   *)
(***************************************************************************)
C23_ValidatedEntriesBuildRules ==
    validated =>
        /\ InPortLoop =>
              /\ PortCommand.exc = "none"
              /\ PortCommand.command.prog = "iptables"
        /\ \A i \in 1..Len(conn.requests) :
              conn.requests[i].command.prog = "iptables"

(***************************************************************************)
(* C24: with iptables appending a rule even when an identical one exists   *)
(* and deleting one matching rule, after n >= 1 successful OPEN A commands *)
(* followed by one successful MEOPEN A the chain holds no rule for A on    *)
(* any configured port.                                                    *)
(***************************************************************************)
\* the chain after n successful OPEN commands for addr on an empty chain
ChainAfterOpens(addr, n) ==
    [r \in { [proto |-> config.PORTS[i].protocol, dport |-> config.PORTS[i].port,
              src |-> addr] : i \in 1..Len(config.PORTS) } |-> n]

\* conn is a successful close for the address it resolves to
SuccessfulClose ==
    /\ conn.id > 0
    /\ Trimmed = MEOPEN \/ (IsCloseAddr /\ is_valid_ip4_address(CloseOperand))
    /\ Closed
    /\ conn.written = <<"OK">>
    /\ Len(conn.requests) = Len(config.PORTS)
    /\ \A i \in 1..Len(conn.requests) : conn.requests[i].result = "exit 0"

C24_CloseAfterOpensLeavesNoRule ==
    \A n \in 1..(MaxCommands - 1) :
        ( /\ conn.id = n + 1
          /\ conn.tableBefore = ChainAfterOpens(Resolved.src, n)
          /\ SuccessfulClose )
        => NoRuleFor(Resolved.src, table)

(***************************************************************************)
(* C25: when the config file given to main does not exist, the daemon logs *)
(* the error and goes on with the default configuration, reaching          *)
(* start_listening instead of exiting.                                     *)
(***************************************************************************)
ConfigFileWasMissing ==
    /\ mainLog # <<>>
    /\ mainLog[1] = "Config file not found. Using default config"

C25_MissingFileUsesDefaults ==
    ConfigFileWasMissing =>
        /\ config = default_config
        /\ pc # "exit"
        /\ exitCode = -1

====
